---- MODULE Spec2Model ----
(***************************************************************************)
(* The rate-limited request queue of the recommendation server             *)
(* (enqueueRequest / processQueue) and its callers.                        *)
(*                                                                         *)
(* The runtime is single-threaded and run-to-completion: every action      *)
(* below is one synchronous run of a handler, from the event that wakes it *)
(* to the next await / return.  Time is a discrete clock advanced by Tick. *)
(***************************************************************************)
EXTENDS Integers, Sequences, FiniteSets, TLC

\* const RATE_LIMIT_DELAY = 1000 (milliseconds)
RATE_LIMIT_DELAY == 1000

\* Bounds of the model
MaxJobs == 3        \* enqueueRequest calls in one behaviour
TickStep == 500     \* milliseconds by which one Tick advances the clock

\* What a requestFn can produce: a value, or a failure.
Values == {"v1", "v2"}
Errors == {"e1"}
NoVal == "-"
Outcomes == [kind : {"ok"}, val : Values] \cup [kind : {"err"}, val : Errors]

\* How an invocation of requestFn() begins: it returns a promise that is
\* awaited ("async"), or it throws before returning.
StartModes == {[kind |-> "async", val |-> NoVal]} \cup [kind : {"err"}, val : Errors]

VARIABLES
    queue,          \* const queue = []: records {requestFn, resolve, reject}
    isProcessing,   \* let isProcessing = false
    running,        \* processQueue frames suspended at `await requestFn()`
    timers,         \* pending setTimeout(processQueue, ...): remaining ms each;
                    \* a timer fires no earlier than its delay
    handle,         \* the promise enqueueRequest returned for call k
    produced,       \* what the requestFn of call k produced when it ran
    nextId,         \* number of enqueueRequest calls made so far
    started,        \* log of requestFn invocations, in order
    settleCalls,    \* number of resolve/reject calls made on promise k
    sinceDelivery,  \* ms since the last outcome delivery (saturating)
    sinceStart,     \* ms since the last requestFn invocation (saturating)
    submittedDuring,\* what the drain loop was doing when call k was made
    jobKind,        \* what the requestFn of call k does: opaque work or a catalog call
    jobOwner,       \* the HTTP request on whose behalf call k was made (0: none)
    inflight,       \* upstream catalog calls (axios.get) issued and not yet answered
    calls,          \* log of upstream catalog calls, in the order issued
    sinceCall,      \* ms since the last upstream catalog call was issued (saturating)
    sinceBatch,     \* ms since the last submission that found the drain loop idle
                    \* (saturating)
    deliveredAt,    \* sinceBatch when the outcome of call k was delivered, counted
                    \* up to (position of k after that submission) x RATE_LIMIT_DELAY
    observed,       \* the awaiting caller of call k has resumed with the outcome
    req,            \* the POST /api/recommend requests and their assemblers
    catalog         \* the most entries the upstream catalog returns for a
                    \* recommendations query

qvars == <<queue, isProcessing, running, timers, handle, produced, nextId,
           started, settleCalls, sinceDelivery, sinceStart, submittedDuring,
           jobKind, jobOwner, inflight, calls, sinceCall, sinceBatch, deliveredAt>>
vars == <<queue, isProcessing, running, timers, handle, produced, nextId,
          started, settleCalls, sinceDelivery, sinceStart, submittedDuring,
          jobKind, jobOwner, inflight, calls, sinceCall, sinceBatch, deliveredAt,
          observed, req, catalog>>

\* The enqueueRequest calls of a behaviour, numbered in call order.
Jobs == DOMAIN handle

\* The HTTP requests of a behaviour, numbered in arrival order.
Reqs == DOMAIN req

\* The number of enqueueRequest calls a behaviour may make.
JobBudget == Cardinality(Jobs)

----------------------------------------------------------------------------
\* Helpers

Min(a, b) == IF a < b THEN a ELSE b
Max(a, b) == IF a > b THEN a ELSE b
Saturate(t) == Min(t, RATE_LIMIT_DELAY)
\* The stopwatch of a batch runs up to one delay per job of a run.
BatchClockCap == MaxJobs * RATE_LIMIT_DELAY
\* Logged in place of an elapsed time when there is no earlier event.
NoGap == 0 - 1

RemoveAt(s, i) == [j \in 1..(Len(s) - 1) |-> IF j < i THEN s[j] ELSE s[j + 1]]

NoHandle == [st |-> "none", val |-> NoVal]
PendingHandle == [st |-> "pending", val |-> NoVal]
NotProduced == [kind |-> "none", val |-> NoVal]
IsSettled(h) == h.st \in {"resolved", "rejected"}

\* The queue's state as one value, so that the functions below compose.
QState ==
    [queue |-> queue, isProcessing |-> isProcessing, running |-> running,
     timers |-> timers, handle |-> handle, produced |-> produced,
     nextId |-> nextId, started |-> started, settleCalls |-> settleCalls,
     sinceDelivery |-> sinceDelivery, sinceStart |-> sinceStart,
     submittedDuring |-> submittedDuring, jobKind |-> jobKind,
     jobOwner |-> jobOwner, inflight |-> inflight, calls |-> calls,
     sinceCall |-> sinceCall, sinceBatch |-> sinceBatch,
     deliveredAt |-> deliveredAt]

Install(s) ==
    /\ queue' = s.queue
    /\ isProcessing' = s.isProcessing
    /\ running' = s.running
    /\ timers' = s.timers
    /\ handle' = s.handle
    /\ produced' = s.produced
    /\ started' = s.started
    /\ settleCalls' = s.settleCalls
    /\ sinceDelivery' = s.sinceDelivery
    /\ sinceStart' = s.sinceStart
    /\ nextId' = s.nextId
    /\ submittedDuring' = s.submittedDuring
    /\ jobKind' = s.jobKind
    /\ jobOwner' = s.jobOwner
    /\ inflight' = s.inflight
    /\ calls' = s.calls
    /\ sinceCall' = s.sinceCall
    /\ sinceBatch' = s.sinceBatch
    /\ deliveredAt' = s.deliveredAt

----------------------------------------------------------------------------
\* enqueueRequest / processQueue

\* new Promise((resolve, reject) => ...): a fresh pending promise for call k
NewPromise(h, k) == [h EXCEPT ![k] = PendingHandle]

\* resolve(result) / reject(error) on promise p; a promise settles only once.
SettlePromise(h, p, out) ==
    IF h[p].st = "pending"
    THEN [h EXCEPT ![p] = [st |-> IF out.kind = "ok" THEN "resolved" ELSE "rejected",
                           val |-> out.val]]
    ELSE h

\* Variant: queue.unshift(...) instead of queue.push(...).
EnqueuedAtHead(q, rec) == <<rec>> \o q

\* queue.push({ requestFn, resolve, reject })
Enqueued(q, rec) == Append(q, rec)

\* Variant: processQueue() is called on every submission.
NeedsDrainAlways(flag) == TRUE

\* Variant: the test of the flag is inverted.
NeedsDrainInverted(flag) == flag

\* if (!isProcessing)
NeedsDrain(flag) == ~flag

\* Variant: queue.pop() instead of queue.shift().
Popped(q) == [rec |-> q[Len(q)], rest |-> SubSeq(q, 1, Len(q) - 1)]

\* Variant: queue[0] is read but not removed.
Peeked(q) == [rec |-> Head(q), rest |-> q]

\* const { requestFn, resolve, reject } = queue.shift()
Shifted(q) == [rec |-> Head(q), rest |-> Tail(q)]

\* Variant: the catch branch calls resolve(error).
DeliveredAsValue(h, rec, out) ==
    SettlePromise(h, rec.promise, [kind |-> "ok", val |-> out.val])

\* try { resolve(result) } catch (error) { reject(error) }
Delivered(h, rec, out) == SettlePromise(h, rec.promise, out)

\* Variant: setTimeout(processQueue, 0).
ArmTimerNoDelay(tm, rec, out, h) ==
    Append(tm, [ms |-> 0, after |-> rec.requestFn,
                delivered |-> IsSettled(h[rec.promise])])

\* Variant: setTimeout sits inside the try block, after resolve(result), so a
\* failure skips it.
ArmTimerOnSuccess(tm, rec, out, h) ==
    IF out.kind = "ok"
    THEN Append(tm, [ms |-> RATE_LIMIT_DELAY, after |-> rec.requestFn,
                     delivered |-> IsSettled(h[rec.promise])])
    ELSE tm

\* Variant: setTimeout(processQueue, RATE_LIMIT_DELAY / 2).
ArmTimerHalfDelay(tm, rec, out, h) ==
    Append(tm, [ms |-> RATE_LIMIT_DELAY \div 2, after |-> rec.requestFn,
                delivered |-> IsSettled(h[rec.promise])])

\* setTimeout(processQueue, RATE_LIMIT_DELAY), reached after try/catch.
\* The timer remembers the job it follows and whether that job's promise
\* was already settled (in h) when the timer was armed.
ArmTimer(tm, rec, out, h) ==
    Append(tm, [ms |-> RATE_LIMIT_DELAY, after |-> rec.requestFn,
                delivered |-> IsSettled(h[rec.promise])])

\* The first of the calls up to k that found the drain loop idle, and the
\* position of k counted from it.
BatchFirst(sd, k) ==
    CHOOSE j \in 1..k : sd[j] = "idle" /\ \A i \in (j + 1)..k : sd[i] # "idle"
BatchIndex(sd, k) == k - BatchFirst(sd, k) + 1

\* The time of a delivery on the batch's stopwatch.
DeliveryTime(s, k) ==
    Min(s.sinceBatch, (BatchIndex(s.submittedDuring, k) - 1) * RATE_LIMIT_DELAY)

\* Variant: setTimeout is called before resolve/reject.
CompleteArmFirst(s, rec, out) ==
    LET s1 == [s EXCEPT !.timers = ArmTimer(@, rec, out, s.handle)]
    IN  [s1 EXCEPT !.produced = [@ EXCEPT ![rec.requestFn] = out],
                   !.inflight = @ \ {rec.requestFn},
                   !.handle = Delivered(@, rec, out),
                   !.settleCalls = [@ EXCEPT ![rec.promise] = @ + 1],
                   !.deliveredAt = [@ EXCEPT ![rec.promise] = DeliveryTime(s, rec.promise)],
                   !.sinceDelivery = 0]

\* The part of processQueue after requestFn's outcome is known:
\* resolve/reject first, setTimeout second.
Complete(s, rec, out) ==
    LET s1 == [s EXCEPT !.produced = [@ EXCEPT ![rec.requestFn] = out],
                        !.inflight = @ \ {rec.requestFn},
                        !.handle = Delivered(@, rec, out),
                        !.settleCalls = [@ EXCEPT ![rec.promise] = @ + 1],
                        !.deliveredAt = [@ EXCEPT ![rec.promise] = DeliveryTime(s, rec.promise)],
                        !.sinceDelivery = 0]
    IN  [s1 EXCEPT !.timers = ArmTimer(@, rec, out, s1.handle)]

\* axios.get(url): one upstream catalog call is issued.  by is the job whose
\* requestFn issues it (0 when it is issued outside any job).
IssueCall(s, id, by) ==
    [s EXCEPT !.inflight = @ \cup {id},
              !.calls = Append(@, [id |-> id, by |-> by,
                                   concurrent |-> Cardinality(s.inflight),
                                   gap |-> IF s.calls = <<>> THEN NoGap
                                           ELSE s.sinceCall]),
              !.sinceCall = 0]

\* The body of the requestFn of call k: () => axios.get(...) for the jobs of
\* the assemblers, opaque work otherwise.
RunThunk(s, k) ==
    IF s.jobKind[k] = "work" THEN s ELSE IssueCall(s, k, k)

\* requestFn() is invoked.  The log entry records who called processQueue
\* (via), how many jobs were running and how many were left pending at that
\* moment, whether the previously started job had delivered its outcome, and
\* the time since the previous delivery (gap) and invocation (sgap).
Invoked(s, rec, via) ==
    LET first == s.started = <<>>
        prev == s.started[Len(s.started)].job
    IN  [RunThunk(s, rec.requestFn) EXCEPT !.started =
                      Append(@, [job |-> rec.requestFn,
                                 via |-> via,
                                 busy |-> Cardinality(s.running),
                                 left |-> Len(s.queue),
                                 prevDone |-> first \/ s.produced[prev].kind # "none",
                                 gap |-> IF first THEN NoGap ELSE s.sinceDelivery,
                                 sgap |-> IF first THEN NoGap ELSE s.sinceStart]),
                  !.sinceStart = 0]

\* Variant: the flag is not cleared when the queue is found empty.
IdleStuck(s) == s

\* Variant: an empty queue is polled again after RATE_LIMIT_DELAY.
IdlePolling(s) ==
    [s EXCEPT !.isProcessing = FALSE,
              !.timers = Append(@, [ms |-> RATE_LIMIT_DELAY, after |-> 0,
                                    delivered |-> TRUE])]

\* if (queue.length === 0) { isProcessing = false; return; }
Idle(s) == [s EXCEPT !.isProcessing = FALSE]

\* Variant: isProcessing = true is missing, so the flag is set nowhere.
ProcessQueueNoFlag(s, mode, via) ==
    IF Len(s.queue) = 0
    THEN Idle(s)
    ELSE LET sh == Shifted(s.queue)
             s1 == Invoked([s EXCEPT !.queue = sh.rest], sh.rec, via)
         IN  IF mode.kind = "async"
             THEN [s1 EXCEPT !.running = @ \cup {sh.rec}]
             ELSE Complete(s1, sh.rec, mode)

\* Variant: requestFn() is not awaited before the next timer is armed.
ProcessQueueNoAwait(s, mode, via) ==
    IF Len(s.queue) = 0
    THEN Idle(s)
    ELSE LET sh == Shifted(s.queue)
             s1 == Invoked([s EXCEPT !.isProcessing = TRUE,
                                     !.queue = sh.rest], sh.rec, via)
         IN  IF mode.kind = "async"
             THEN [s1 EXCEPT !.running = @ \cup {sh.rec},
                             !.timers = Append(@, [ms |-> RATE_LIMIT_DELAY,
                                                   after |-> sh.rec.requestFn,
                                                   delivered |-> FALSE])]
             ELSE Complete(s1, sh.rec, mode)

\* async function processQueue(), run until it suspends or returns.
ProcessQueue(s, mode, via) ==
    IF Len(s.queue) = 0
    THEN Idle(s)
    ELSE LET sh == Shifted(s.queue)
             s1 == Invoked([s EXCEPT !.isProcessing = TRUE,
                                     !.queue = sh.rest], sh.rec, via)
         IN  IF mode.kind = "async"
             THEN [s1 EXCEPT !.running = @ \cup {sh.rec}]
             ELSE Complete(s1, sh.rec, mode)

\* What the drain loop is doing, as seen by a caller of enqueueRequest.
LoopPhase(s) ==
    IF s.running # {} THEN "running"
    ELSE IF s.timers # <<>> THEN "delay"
    ELSE "idle"

\* A caller builds the closure requestFn (of the given kind, for the given
\* HTTP request) for its next call of enqueueRequest.
NewJob(s, kind, owner) ==
    LET k == s.nextId + 1
    IN  [s EXCEPT !.nextId = k,
                  !.jobKind = [@ EXCEPT ![k] = kind],
                  !.jobOwner = [@ EXCEPT ![k] = owner],
                  !.submittedDuring = [@ EXCEPT ![k] = LoopPhase(s)],
                  !.sinceBatch = IF LoopPhase(s) = "idle" THEN 0 ELSE @]

\* function enqueueRequest(requestFn), for the closure numbered k
EnqueueRequest(s, k, mode) ==
    LET rec == [requestFn |-> k, promise |-> k]
        s1 == [s EXCEPT !.handle = NewPromise(@, k),
                        !.queue = Enqueued(@, rec)]
    IN  IF NeedsDrain(s1.isProcessing) THEN ProcessQueue(s1, mode, "enqueue") ELSE s1

----------------------------------------------------------------------------
\* The recommendation assemblers (callers of enqueueRequest)

\* Bounds of the model
MaxRequests == 2    \* POST /api/recommend requests in one behaviour
MaxRecs == 9        \* entries the catalog returns for a recommendations query
MaxApiJobs == 6     \* enqueueRequest calls by all requests in one behaviour
MaxOneJobs == 14    \* enqueueRequest calls when a single request is followed
MaxFewJobs == 8     \* enqueueRequest calls of one request to a small catalog
FewRecs == 2        \* a catalog with few recommendations per title

\* recommendationsResponse.data.data.slice(0, 8)
DetailLimit == 8
\* if (recommendations.length < 5): the fallback tiers are consulted
RecsWanted == 5
\* recommendations.slice(0, 5)
ResultCap == 5

\* What a requestFn resolves with: a value for opaque work, the catalog's
\* HTTP response for the jobs of the assemblers.
PayloadsOf(kind) == IF kind = "work" THEN Values ELSE {"response"}

\* The body of a catalog response, by what the assembler that receives it
\* reads from it: a search is empty or has a first entry (with or without
\* genres), a detail record passes the genre/exclude filters or not, a list
\* has a number of usable entries.
ListNames == <<"n1", "n2", "n3", "n4", "n5", "n6", "n7", "n8", "n9", "n10">>
ListLen(body) ==
    IF body = "n0" THEN 0 ELSE CHOOSE i \in 1..Len(ListNames) : ListNames[i] = body

BodiesOf(kind) ==
    CASE kind \in {"search1", "search2"} -> {"empty", "hit", "hitNoGenre"}
      [] kind = "recs" -> {"n0"} \cup {ListNames[i] : i \in 1..catalog}
      [] kind = "detail" -> {"keep", "drop"}
      [] kind \in {"genre", "top"} -> {"n2", "n5"}
      [] kind = "popular" -> {"n2", "n7"}

OutcomesOf(kind) ==
    [kind : {"ok"}, val : PayloadsOf(kind)] \cup [kind : {"err"}, val : Errors]

\* Closures that can throw before returning a promise: opaque work, and the
\* searches, whose URL is built with encodeURIComponent(titles[i]).
SyncThrowKinds == {"work", "search1", "search2"}
AsyncMode == [kind |-> "async", val |-> NoVal]
MayStartAs(mode, kind) == mode.kind = "async" \/ kind \in SyncThrowKinds

IdleReq ==
    [media |-> "none", nTitles |-> 0, pc |-> "idle", baseGenres |-> FALSE,
     recs |-> 0, kept |-> 0, waiting |-> {}, status |-> 0, sent |-> 0,
     count |-> 0]

\* The result of one synchronous run of an assembler: the queue's state and
\* the request's state after it.
Out(s, rq) == [s |-> s, rq |-> rq]

\* return res.status(status).json(...) / return res.json(...): the request is
\* answered with n recommendations and the assembler's locals are gone.
Respond(s, rq, status, n) ==
    Out(s, [IdleReq EXCEPT !.media = rq.media, !.pc = "done", !.status = status,
                           !.sent = rq.sent + 1, !.count = n])

\* await enqueueRequest(() => axios.get(...)): submit one job and suspend.
SubmitJob(s, rq, r, kind, mode) ==
    LET s1 == NewJob(s, kind, r)
    IN  Out(EnqueueRequest(s1, s1.nextId, mode),
            [rq EXCEPT !.pc = kind, !.waiting = {s1.nextId}])

\* Variant: the route's catch logs the error and sends nothing.
FailNoResponse(s, rq) == Out(s, [rq EXCEPT !.pc = "failed", !.waiting = {}])

\* catch (error) { throw error } in the assembler, then the route's catch:
\* res.status(500)
Fail(s, rq) == Respond(s, rq, 500, 0)

\* Variant: the list is returned without slice(0, 5).
FinalNoSlice(s, rq) == Respond(s, rq, 200, rq.recs)

\* return res.json({ recommendations: recommendations.slice(0, 5), ... })
Final(s, rq) == Respond(s, rq, 200, Min(rq.recs, ResultCap))

\* Variant: the top-ranked list is fetched whatever the number of records.
TopTierAlways(s, rq, r, mode) == SubmitJob(s, rq, r, "top", mode)

\* "If still not enough, add popular manga"
TopTier(s, rq, r, mode) ==
    IF rq.recs < RecsWanted THEN SubmitJob(s, rq, r, "top", mode) ELSE Final(s, rq)

\* "If we don't have enough recommendations, add some based on genre"
GenreTier(s, rq, r, mode) ==
    IF rq.recs < RecsWanted /\ rq.baseGenres
    THEN SubmitJob(s, rq, r, "genre", mode)
    ELSE TopTier(s, rq, r, mode)

\* Variant: the detail fetch calls axios.get directly, not through the queue.
FetchDetailDirect(s, r, mode) ==
    LET s1 == NewJob(s, "detail", r)
        k == s1.nextId
    IN  IssueCall([s1 EXCEPT !.handle = NewPromise(@, k)], k, 0)

\* const mangaDetails = await enqueueRequest(() => axios.get(.../manga/${id}))
FetchDetail(s, r, mode) ==
    LET s1 == NewJob(s, "detail", r)
    IN  EnqueueRequest(s1, s1.nextId, mode)

\* initialRecs.map(async (rec) => ...): every callback runs up to its await
RECURSIVE FetchDetails(_, _, _, _)
FetchDetails(s, r, n, mode) ==
    IF n = 0 THEN s ELSE FetchDetails(FetchDetail(s, r, mode), r, n - 1, mode)

\* Variant: the second title is never tried.
AfterSearchNoSecond(s, rq, r, h, body, mode) ==
    IF h.st = "rejected" THEN Fail(s, rq)
    ELSE IF body = "empty" THEN Respond(s, rq, 404, 0)
    ELSE SubmitJob(s, [rq EXCEPT !.baseGenres = (body = "hit")], r, "recs", mode)

\* getMangaRecommendations / getAnimeRecommendations after a title search
AfterSearch(s, rq, r, h, body, mode) ==
    IF h.st = "rejected" THEN Fail(s, rq)
    ELSE IF body = "empty"
    THEN IF rq.pc = "search1" /\ rq.nTitles > 1
         THEN SubmitJob(s, rq, r, "search2", mode)
         ELSE Respond(s, rq, 404, 0)
    ELSE SubmitJob(s, [rq EXCEPT !.baseGenres = (body = "hit")], r, "recs", mode)

\* Variant: every recommendation is fetched, without slice(0, 8).
AfterRecsNoSlice(s, rq, r, h, body, mode) ==
    IF h.st = "rejected" THEN Fail(s, rq)
    ELSE LET n == ListLen(body)
             s1 == FetchDetails(s, r, n, mode)
         IN  IF n > 0
             THEN Out(s1, [rq EXCEPT !.pc = "detail", !.kept = 0,
                                     !.waiting = (s.nextId + 1)..s1.nextId])
             ELSE GenreTier(s, [rq EXCEPT !.recs = 0], r, mode)

\* ... after the recommendations query
AfterRecs(s, rq, r, h, body, mode) ==
    IF h.st = "rejected" THEN Fail(s, rq)
    ELSE LET n == Min(ListLen(body), DetailLimit)
             s1 == FetchDetails(s, r, n, mode)
         IN  IF n > 0
             THEN Out(s1, [rq EXCEPT !.pc = "detail", !.kept = 0,
                                     !.waiting = (s.nextId + 1)..s1.nextId])
             ELSE GenreTier(s, [rq EXCEPT !.recs = 0], r, mode)

\* Variant: the detail fetch has no try/catch of its own, so a rejection
\* rejects Promise.all and reaches the outer catch.
AfterDetailNoTry(s, rq, r, k, h, body, mode) ==
    LET kept == rq.kept + (IF body = "keep" THEN 1 ELSE 0)
        left == rq.waiting \ {k}
    IN  IF h.st = "rejected" THEN Fail(s, rq)
        ELSE IF left # {}
        THEN Out(s, [rq EXCEPT !.kept = kept, !.waiting = left])
        ELSE GenreTier(s, [rq EXCEPT !.kept = kept, !.waiting = {}, !.recs = kept],
                       r, mode)

\* Variant: a failed detail fetch discards the records collected so far.
AfterDetailResetOnFailure(s, rq, r, k, h, body, mode) ==
    LET kept == IF h.st = "rejected" THEN 0
                ELSE rq.kept + (IF body = "keep" THEN 1 ELSE 0)
        left == rq.waiting \ {k}
    IN  IF left # {}
        THEN Out(s, [rq EXCEPT !.kept = kept, !.waiting = left])
        ELSE GenreTier(s, [rq EXCEPT !.kept = kept, !.waiting = {}, !.recs = kept],
                       r, mode)

\* ... after one detail fetch: the callback returns a record or null; when the
\* last one has, Promise.all resolves and the nulls are filtered out
AfterDetail(s, rq, r, k, h, body, mode) ==
    LET kept == rq.kept + (IF h.st = "resolved" /\ body = "keep" THEN 1 ELSE 0)
        left == rq.waiting \ {k}
    IN  IF left # {}
        THEN Out(s, [rq EXCEPT !.kept = kept, !.waiting = left])
        ELSE GenreTier(s, [rq EXCEPT !.kept = kept, !.waiting = {}, !.recs = kept],
                       r, mode)

\* ... after the genre fallback query
AfterGenre(s, rq, r, h, body, mode) ==
    IF h.st = "rejected" THEN Fail(s, rq)
    ELSE TopTier(s, [rq EXCEPT !.recs = @ + ListLen(body)], r, mode)

\* ... after the top-ranked fallback query
AfterTop(s, rq, r, h, body, mode) ==
    IF h.st = "rejected" THEN Fail(s, rq)
    ELSE Final(s, [rq EXCEPT !.recs = @ + ListLen(body)])

\* getManhwaRecommendations after a title search
ManhwaAfterSearch(s, rq, r, h, body, mode) ==
    IF h.st = "rejected" THEN Fail(s, rq)
    ELSE IF body # "empty" THEN SubmitJob(s, rq, r, "popular", mode)
    ELSE IF rq.pc = "search1" /\ rq.nTitles > 1
    THEN SubmitJob(s, rq, r, "search2", mode)
    ELSE Respond(s, rq, 404, 0)

\* ... after the popular-manhwa query: filteredManhwa.slice(0, 5)
ManhwaAfterPopular(s, rq, r, h, body, mode) ==
    IF h.st = "rejected" THEN Fail(s, rq)
    ELSE LET rq1 == [rq EXCEPT !.recs = Min(ListLen(body), ResultCap)]
         IN  IF rq1.recs < RecsWanted
             THEN SubmitJob(s, rq1, r, "top", mode)
             ELSE Final(s, rq1)

\* ... after the top-ranked query: .slice(0, 5 - recommendations.length)
ManhwaAfterTop(s, rq, r, h, body, mode) ==
    IF h.st = "rejected" THEN Fail(s, rq)
    ELSE Final(s, [rq EXCEPT !.recs = @ + Min(ListLen(body), ResultCap - rq.recs)])

\* What req.body.titles can be: absent, an empty list, a value that is not a
\* list, a list of one title, a list of two or more.
TitleInputs == {"missing", "empty", "notalist", "one", "two"}
MediaInputs == {"manga", "manhwa", "anime"}

\* Variant: only if (!titles) is tested, so an empty list passes validation.
PostRecommendNoEmptyCheck(s, r, media, titles, mode) ==
    IF titles = "missing" THEN Respond(s, IdleReq, 400, 0)
    ELSE IF titles = "notalist" THEN Fail(s, IdleReq)
    ELSE SubmitJob(s, [IdleReq EXCEPT !.media = media,
                                      !.nTitles = IF titles = "two" THEN 2 ELSE 1],
                   r, "search1", mode)

\* app.post('/api/recommend', ...) up to its first await
PostRecommend(s, r, media, titles, mode) ==
    IF titles \in {"missing", "empty"} THEN Respond(s, IdleReq, 400, 0)
    ELSE IF titles = "notalist" THEN Fail(s, IdleReq)
    ELSE SubmitJob(s, [IdleReq EXCEPT !.media = media,
                                      !.nTitles = IF titles = "one" THEN 1 ELSE 2],
                   r, "search1", mode)

----------------------------------------------------------------------------
\* Actions

\* Promise reactions run before the event loop takes the next timer or I/O
\* event: a caller whose promise is settled resumes first.
NoMicrotask == \A k \in Jobs : IsSettled(handle[k]) => observed[k]

\* The state at process start, for a behaviour of at most n enqueueRequest
\* calls and m HTTP requests, against a catalog that returns up to c
\* recommendations.
InitWith(n, m, c) ==
    /\ queue = <<>>
    /\ isProcessing = FALSE
    /\ running = {}
    /\ timers = <<>>
    /\ handle = [k \in 1..n |-> NoHandle]
    /\ produced = [k \in 1..n |-> NotProduced]
    /\ nextId = 0
    /\ started = <<>>
    /\ settleCalls = [k \in 1..n |-> 0]
    /\ sinceDelivery = 0
    /\ sinceStart = 0
    /\ submittedDuring = [k \in 1..n |-> "none"]
    /\ jobKind = [k \in 1..n |-> "none"]
    /\ jobOwner = [k \in 1..n |-> 0]
    /\ inflight = {}
    /\ calls = <<>>
    /\ sinceCall = 0
    /\ sinceBatch = 0
    /\ deliveredAt = [k \in 1..n |-> NoGap]
    /\ observed = [k \in 1..n |-> FALSE]
    /\ req = [r \in 1..m |-> IdleReq]
    /\ catalog = c

Init == InitWith(MaxJobs, MaxRequests, MaxRecs)

\* Some caller calls enqueueRequest(work).
Submit ==
    /\ nextId < MaxJobs
    /\ \E mode \in StartModes :
          /\ (~NeedsDrain(isProcessing) => mode.kind = "async")
          /\ LET s1 == NewJob(QState, "work", 0)
             IN  Install(EnqueueRequest(s1, s1.nextId, mode))
    /\ UNCHANGED <<observed, req, catalog>>

\* The promise returned by a running requestFn settles; processQueue resumes
\* after its await, delivers the outcome and arms the timer.
Settle ==
    /\ NoMicrotask
    /\ \E rec \in running : \E out \in OutcomesOf(jobKind[rec.requestFn]) :
          Install(Complete([QState EXCEPT !.running = @ \ {rec}], rec, out))
    /\ UNCHANGED <<observed, req, catalog>>

\* A timer armed by processQueue is due: the event loop calls processQueue.
TimerFire ==
    /\ NoMicrotask
    /\ \E i \in 1..Len(timers) : \E mode \in StartModes :
          /\ timers[i].ms = 0
          /\ IF Len(queue) = 0 THEN mode.kind = "async"
             ELSE MayStartAs(mode, jobKind[queue[1].requestFn])
          /\ Install(ProcessQueue([QState EXCEPT !.timers = RemoveAt(@, i)],
                                   mode, "timer"))
    /\ UNCHANGED <<observed, req, catalog>>

\* The caller awaiting call k (opaque work) resumes with the outcome.
Observe ==
    /\ \E k \in Jobs :
          /\ jobKind[k] = "work"
          /\ IsSettled(handle[k])
          /\ ~observed[k]
          /\ observed' = [observed EXCEPT ![k] = TRUE]
    /\ UNCHANGED <<qvars, req, catalog>>

\* TickStep milliseconds pass.
Tick ==
    /\ timers' = [i \in 1..Len(timers) |->
                      [timers[i] EXCEPT !.ms = Max(@ - TickStep, 0)]]
    /\ sinceDelivery' = Saturate(sinceDelivery + TickStep)
    /\ sinceStart' = Saturate(sinceStart + TickStep)
    /\ sinceCall' = Saturate(sinceCall + TickStep)
    /\ sinceBatch' = Min(sinceBatch + TickStep, BatchClockCap)
    /\ UNCHANGED <<queue, isProcessing, running, handle, produced, nextId,
                   started, settleCalls, submittedDuring, jobKind, jobOwner,
                   inflight, calls, deliveredAt, observed, req, catalog>>

Next == Submit \/ Settle \/ TimerFire \/ Observe \/ Tick

Spec == Init /\ [][Next]_vars

\* Every started requestFn eventually settles, timers eventually fire, time
\* passes and resumed callers run.
FairSpec ==
    /\ Spec
    /\ WF_vars(Settle)
    /\ WF_vars(TimerFire)
    /\ WF_vars(Observe)
    /\ WF_vars(Tick)

----------------------------------------------------------------------------
\* Actions of the HTTP requests

\* The assembler of request r is suspended on call k, whose promise is settled.
Resumable(r, k, pcs, medias) ==
    /\ req[r].pc \in pcs
    /\ req[r].media \in medias
    /\ k \in req[r].waiting
    /\ IsSettled(handle[k])
    /\ ~observed[k]

Commit(r, k, o) ==
    /\ o.s.nextId <= JobBudget
    /\ Install(o.s)
    /\ req' = [req EXCEPT ![r] = o.rq]
    /\ observed' = [observed EXCEPT ![k] = TRUE]
    /\ UNCHANGED catalog

TitleMedia == {"manga", "anime"}

\* A POST /api/recommend arrives and its handler runs up to the first await.
Arrive ==
    /\ NoMicrotask
    /\ nextId < JobBudget
    /\ \E r \in Reqs :
          /\ req[r].pc = "idle"
          /\ \A p \in 1..(r - 1) : req[p].pc # "idle"
          /\ \E media \in MediaInputs :
             \E titles \in TitleInputs :
             \E mode \in StartModes :
                /\ (~NeedsDrain(isProcessing) \/ titles \notin {"one", "two"})
                       => mode.kind = "async"
                /\ LET o == PostRecommend(QState, r, media, titles, mode)
                   IN  /\ o.s.nextId <= JobBudget
                       /\ Install(o.s)
                       /\ req' = [req EXCEPT ![r] = o.rq]
    /\ UNCHANGED <<observed, catalog>>

MangaAfterSearch ==
    \E r \in Reqs : \E k \in Jobs :
        /\ Resumable(r, k, {"search1", "search2"}, TitleMedia)
        /\ \E body \in BodiesOf(req[r].pc) :
             Commit(r, k, AfterSearch(QState, req[r], r, handle[k], body, AsyncMode))

MangaAfterRecs ==
    \E r \in Reqs : \E k \in Jobs :
        /\ Resumable(r, k, {"recs"}, TitleMedia)
        /\ \E body \in BodiesOf(req[r].pc) :
             Commit(r, k, AfterRecs(QState, req[r], r, handle[k], body, AsyncMode))

MangaAfterDetail ==
    \E r \in Reqs : \E k \in Jobs :
        /\ Resumable(r, k, {"detail"}, TitleMedia)
        /\ \E body \in BodiesOf(req[r].pc) :
             Commit(r, k, AfterDetail(QState, req[r], r, k, handle[k], body, AsyncMode))

MangaAfterGenre ==
    \E r \in Reqs : \E k \in Jobs :
        /\ Resumable(r, k, {"genre"}, TitleMedia)
        /\ \E body \in BodiesOf(req[r].pc) :
             Commit(r, k, AfterGenre(QState, req[r], r, handle[k], body, AsyncMode))

MangaAfterTop ==
    \E r \in Reqs : \E k \in Jobs :
        /\ Resumable(r, k, {"top"}, TitleMedia)
        /\ \E body \in BodiesOf(req[r].pc) :
             Commit(r, k, AfterTop(QState, req[r], r, handle[k], body, AsyncMode))

ManhwaSearched ==
    \E r \in Reqs : \E k \in Jobs :
        /\ Resumable(r, k, {"search1", "search2"}, {"manhwa"})
        /\ \E body \in BodiesOf(req[r].pc) :
             Commit(r, k, ManhwaAfterSearch(QState, req[r], r, handle[k], body, AsyncMode))

ManhwaPopular ==
    \E r \in Reqs : \E k \in Jobs :
        /\ Resumable(r, k, {"popular"}, {"manhwa"})
        /\ \E body \in BodiesOf(req[r].pc) :
             Commit(r, k, ManhwaAfterPopular(QState, req[r], r, handle[k], body, AsyncMode))

ManhwaTop ==
    \E r \in Reqs : \E k \in Jobs :
        /\ Resumable(r, k, {"top"}, {"manhwa"})
        /\ \E body \in BodiesOf(req[r].pc) :
             Commit(r, k, ManhwaAfterTop(QState, req[r], r, handle[k], body, AsyncMode))

InitApi == InitWith(MaxApiJobs, MaxRequests, MaxRecs)

NextApi ==
    \/ Arrive
    \/ MangaAfterSearch
    \/ MangaAfterRecs
    \/ MangaAfterDetail
    \/ MangaAfterGenre
    \/ MangaAfterTop
    \/ ManhwaSearched
    \/ ManhwaPopular
    \/ ManhwaTop
    \/ Settle
    \/ TimerFire
    \/ Tick

SpecApi == InitApi /\ [][NextApi]_vars

\* One request followed through its whole assembly.
InitOne == InitWith(MaxOneJobs, 1, MaxRecs)

SpecOne == InitOne /\ [][NextApi]_vars

\* Every upstream call eventually settles, timers fire, time passes, and an
\* assembler whose awaited promise has settled resumes.  Requests need not
\* arrive.
ApiFairness ==
    /\ WF_vars(Settle)
    /\ WF_vars(TimerFire)
    /\ WF_vars(Tick)
    /\ WF_vars(MangaAfterSearch)
    /\ WF_vars(MangaAfterRecs)
    /\ WF_vars(MangaAfterDetail)
    /\ WF_vars(MangaAfterGenre)
    /\ WF_vars(MangaAfterTop)
    /\ WF_vars(ManhwaSearched)
    /\ WF_vars(ManhwaPopular)
    /\ WF_vars(ManhwaTop)

\* One request against a catalog with few recommendations per title.
InitFew == InitWith(MaxFewJobs, 1, FewRecs)

SpecFew == InitFew /\ [][NextApi]_vars

FairSpecFew == SpecFew /\ ApiFairness

----------------------------------------------------------------------------
\* Properties

StartedJobs == {started[i].job : i \in 1..Len(started)}
StartsOf(k) == Cardinality({i \in 1..Len(started) : started[i].job = k})
ExpectedHandle(out) ==
    [st |-> IF out.kind = "ok" THEN "resolved" ELSE "rejected", val |-> out.val]
Failed(k) == produced[k].kind = "err"

RECURSIVE SumUpTo(_, _)
SumUpTo(f, n) == IF n = 0 THEN 0 ELSE f[n] + SumUpTo(f, n - 1)

\* C1 (mutual exclusion): in every reachable state at most one requestFn is
\* executing (started and not yet settled), and no requestFn is ever invoked
\* while another one is still executing.
C1_MutualExclusion ==
    /\ Cardinality(running) <= 1
    /\ \A i \in 1..Len(started) : started[i].busy = 0

\* One job is executing while another submitted job waits, after an earlier
\* job has already run.
C1_Witness ==
    /\ Cardinality(running) = 1
    /\ Len(queue) >= 1
    /\ Len(started) >= 2

\* C2 (spacing): every job but the first starts only after the previously
\* started job has delivered its outcome, at least RATE_LIMIT_DELAY after that
\* delivery and hence at least RATE_LIMIT_DELAY after the previous start; this
\* covers starts made by the timer and starts made by a submission that finds
\* the loop idle.
C2_Spacing ==
    \A i \in 2..Len(started) :
        /\ started[i].prevDone
        /\ started[i].gap >= RATE_LIMIT_DELAY
        /\ started[i].sgap >= RATE_LIMIT_DELAY

\* A run with a timer-driven start and a later start by a submission that
\* restarted the idle loop.
C2_Witness ==
    /\ \E i \in 2..Len(started) : started[i].via = "timer"
    /\ \E i \in 2..Len(started) : started[i].via = "enqueue"

\* C3 (global FIFO): jobs start in the order of their enqueueRequest calls,
\* none is skipped, and every submitted job that has not started is still
\* pending in the queue, in submission order.
C3_Fifo ==
    /\ \A i \in 1..Len(started) : started[i].job = i
    /\ Len(queue) = nextId - Len(started)
    /\ \A i \in 1..Len(queue) : queue[i].requestFn = Len(started) + i

\* A job started while a later-submitted job was waiting behind it, and that
\* later job has started too.
C3_Witness ==
    \E i \in 1..Len(started) : started[i].left >= 1 /\ Len(started) > i

\* C4 (non-dropping): under the fairness of FairSpec, every submitted job is
\* eventually started and its promise is eventually resolved or rejected.
C4_NonDropping ==
    \A k \in 1..MaxJobs :
        (handle[k].st = "pending") ~> (k \in StartedJobs /\ IsSettled(handle[k]))

\* Every job of the run was submitted, at least one had to wait for a timer,
\* and all are settled.
C4_Witness ==
    /\ nextId = MaxJobs
    /\ \A k \in Jobs : IsSettled(handle[k])
    /\ \E i \in 1..Len(started) : started[i].via = "timer"

\* C5 (exactly once): each job's requestFn is invoked at most once and its
\* promise is settled by at most one resolve/reject call; once nothing is
\* pending or running, starts and settlements both equal the submissions.
C5_ExactlyOnce ==
    /\ \A k \in Jobs : StartsOf(k) <= 1 /\ settleCalls[k] <= 1
    /\ (queue = <<>> /\ running = {}) =>
           /\ Len(started) = nextId
           /\ SumUpTo(settleCalls, MaxJobs) = nextId

\* All jobs of the run were submitted and have finished.
C5_Witness ==
    /\ nextId = MaxJobs
    /\ queue = <<>>
    /\ running = {}
    /\ \A k \in Jobs : settleCalls[k] = 1

\* A step in which job k's requestFn is found to have failed.
FailsNow(k) == produced[k].kind = "none" /\ produced'[k].kind = "err"

\* C6 (fault isolation): the step that delivers a failure leaves isProcessing
\* true, arms exactly one RATE_LIMIT_DELAY timer and leaves the other pending
\* jobs as they were; the job started after a failed job starts at least
\* RATE_LIMIT_DELAY after the failure; and (under FairSpec) a job pending
\* behind a failed job does start.
C6_FaultIsolation ==
    /\ [][\A k \in Jobs : FailsNow(k) =>
            /\ isProcessing'
            /\ Len(timers') = 1
            /\ timers'[1].ms = RATE_LIMIT_DELAY
            /\ timers'[1].after = k
            /\ queue' = SelectSeq(queue, LAMBDA r : r.requestFn # k)
            /\ handle'[k].st = "rejected"]_vars
    /\ [](\A i \in 2..Len(started) :
            Failed(started[i - 1].job) =>
                started[i].prevDone /\ started[i].gap >= RATE_LIMIT_DELAY)
    /\ \A n \in 1..MaxJobs :
          (Len(started) = n /\ Failed(started[n].job) /\ queue # <<>>)
              ~> (Len(started) > n)

\* A job failed while another was pending, and that one started afterwards.
C6_Witness ==
    \E i \in 2..Len(started) :
        /\ Failed(started[i - 1].job)
        /\ started[i - 1].left >= 1
        /\ started[i].via = "timer"

\* C7 (result fidelity): a settled promise holds exactly what the requestFn of
\* the same enqueueRequest call produced (resolved with its value, rejected
\* with its failure), and a promise, once settled, is never changed by the
\* outcome of any other job.
C7_ResultFidelity ==
    /\ [](\A k \in Jobs :
            /\ IsSettled(handle[k]) =>
                  produced[k].kind # "none" /\ handle[k] = ExpectedHandle(produced[k])
            /\ produced[k].kind # "none" => handle[k] = ExpectedHandle(produced[k]))
    /\ [][\A k \in Jobs : IsSettled(handle[k]) => handle'[k] = handle[k]]_vars

\* Two jobs with different outcomes, one a failure and one a success.
C7_Witness ==
    \E j, k \in Jobs :
        /\ handle[j].st = "rejected"
        /\ handle[k].st = "resolved"
        /\ \E m \in Jobs : handle[m].st = "resolved" /\ handle[m].val # handle[k].val

\* The loop has really gone idle: nothing running, no timer pending.
LoopIdle == running = {} /\ timers = <<>>

\* C8 (idle restart): a submission that finds the loop idle starts its job in
\* the same step; a job submitted while only the trailing timer is pending is
\* started by that timer's processQueue; and no job is ever left pending with
\* neither a running job nor a timer to reach it.
C8_IdleRestart ==
    /\ [][(Submit /\ LoopIdle) =>
            /\ Len(started') = Len(started) + 1
            /\ started'[Len(started')].job = nextId'
            /\ isProcessing']_vars
    /\ [][(TimerFire /\ queue # <<>>) =>
            /\ Len(started') = Len(started) + 1
            /\ started'[Len(started')].job = queue[1].requestFn]_vars
    /\ [](queue # <<>> => (running # {} \/ timers # <<>>))

\* After the loop went idle a submission restarted it, and a job submitted
\* during the trailing delay of an emptied queue was started by the timer.
C8_Witness ==
    /\ \E i \in 2..Len(started) :
          started[i].via = "enqueue" /\ submittedDuring[started[i].job] = "idle"
    /\ \E i \in 2..Len(started) :
          /\ started[i].via = "timer"
          /\ submittedDuring[started[i].job] = "delay"
          /\ started[i - 1].left = 0

\* C9 (outcome before delay): a job's promise is settled in the step in which
\* its requestFn settles, it is already settled when the following timer is
\* armed, and the awaiting caller resumes while that timer is still pending.
C9_OutcomeBeforeDelay ==
    /\ \A k \in Jobs : produced[k].kind # "none" => IsSettled(handle[k])
    /\ \A i \in 1..Len(timers) : timers[i].delivered
    /\ \A k \in Jobs :
          (IsSettled(handle[k]) /\ ~observed[k]) =>
              \E i \in 1..Len(timers) : timers[i].after = k

\* A job's caller has its result while the delay that follows the job is still
\* running.
C9_Witness ==
    \E k \in Jobs :
        /\ observed[k]
        /\ \E i \in 1..Len(timers) : timers[i].after = k /\ timers[i].ms > 0

RunningJobs == {rec.requestFn : rec \in running}

\* C10 (system-wide serialization of upstream calls): with concurrent
\* requests of any media type, every upstream catalog call is issued by the
\* requestFn of a job the queue started (one call per started job, none
\* issued outside a job), so at most one call is in flight, none is issued
\* while another is in flight, and consecutive calls are at least
\* RATE_LIMIT_DELAY apart.
C10_UpstreamSerialized ==
    /\ Cardinality(inflight) <= 1
    /\ inflight = RunningJobs
    /\ Len(calls) = Len(started)
    /\ \A i \in 1..Len(calls) :
          /\ calls[i].by # 0
          /\ calls[i].by = started[i].job
          /\ calls[i].concurrent = 0
    /\ \A i \in 2..Len(calls) :
          /\ calls[i].gap >= RATE_LIMIT_DELAY
          /\ started[i].prevDone
          /\ started[i].gap >= RATE_LIMIT_DELAY

\* A catalog call of one request is in flight while a job of another request,
\* of another media type, waits in the queue, after earlier calls were made.
C10_Witness ==
    /\ Len(calls) >= 2
    /\ \E k \in inflight : \E i \in 1..Len(queue) :
          /\ jobOwner[k] # jobOwner[queue[i].requestFn]
          /\ req[jobOwner[k]].media # req[jobOwner[queue[i].requestFn]].media

\* C16 (no internal timeout, stall on hang): a promise is never settled before
\* the requestFn of its own job has settled; while a job is running no timer is
\* pending, and a step that leaves the running job running (time passing,
\* further submissions, callers resuming) starts no job and settles no
\* promise.  So for as long as a started requestFn does not settle, nothing
\* submitted after it starts or is settled.
C16_StallOnHang ==
    /\ [](\A k \in Jobs : IsSettled(handle[k]) => produced[k].kind # "none")
    /\ [](running # {} => timers = <<>>)
    /\ [][(running # {} /\ running' = running) =>
            /\ started' = started
            /\ produced' = produced
            /\ settleCalls' = settleCalls
            /\ \A k \in Jobs : IsSettled(handle'[k]) <=> IsSettled(handle[k])
            /\ timers' = <<>>]_vars

\* A job has been running for at least RATE_LIMIT_DELAY while every other job
\* of the run waits behind it.
C16_Witness ==
    /\ Cardinality(running) = 1
    /\ sinceStart >= RATE_LIMIT_DELAY
    /\ Len(started) = 1
    /\ Len(queue) = MaxJobs - 1
    /\ \A i \in 1..Len(queue) : handle[queue[i].promise].st = "pending"

OutcomeKnown(k) == produced[k].kind # "none"

\* C17 (batch timing and order): of the jobs submitted to the queue from the
\* moment a submission found it idle, outcomes are delivered in submission
\* order; the first starts in the step of its own submission, with no delay;
\* and the k-th outcome is delivered no earlier than (k-1) x RATE_LIMIT_DELAY
\* after that first submission, however quickly the jobs settle (3 jobs take
\* at least two delays).
C17_BatchTiming ==
    /\ [](\A j, k \in Jobs : (j < k /\ OutcomeKnown(k)) => OutcomeKnown(j))
    /\ [](\A k \in Jobs :
            OutcomeKnown(k) =>
                deliveredAt[k] >= (BatchIndex(submittedDuring, k) - 1) * RATE_LIMIT_DELAY)
    /\ [][\A k \in Jobs :
            (submittedDuring[k] = "none" /\ submittedDuring'[k] = "idle") =>
                /\ Len(started') = Len(started) + 1
                /\ started'[Len(started')].job = k
                /\ started'[Len(started')].via = "enqueue"
                /\ sinceBatch' = 0]_vars

\* MaxJobs jobs were submitted back-to-back to the idle queue (the later ones
\* while the first was still running), each settled without delay, and the
\* last outcome has just been delivered, (MaxJobs - 1) delays after the first
\* submission to the millisecond.
C17_Witness ==
    /\ nextId = MaxJobs
    /\ submittedDuring[1] = "idle"
    /\ \A k \in 2..MaxJobs : submittedDuring[k] = "running"
    /\ \A k \in 1..MaxJobs : handle[k].st = "resolved"
    /\ sinceDelivery = 0
    /\ sinceStart = 0
    /\ sinceBatch = (MaxJobs - 1) * RATE_LIMIT_DELAY
    /\ deliveredAt[MaxJobs] = (MaxJobs - 1) * RATE_LIMIT_DELAY

\* A timer that was not pending before this step is pending after it.
ArmedNow ==
    \E i \in 1..Len(timers') :
        /\ timers'[i].ms = RATE_LIMIT_DELAY
        /\ \A j \in 1..Len(timers) : timers[j].after # timers'[i].after

\* C18 (timer discipline): at most one timer is pending; a timer is armed only
\* in the step that has just delivered a job's outcome (that job's promise is
\* settled when setTimeout is called), for RATE_LIMIT_DELAY; and as long as
\* nothing was submitted the queue is empty, isProcessing is false, no timer
\* is pending and nothing has run or failed.
C18_TimerDiscipline ==
    /\ [](Len(timers) <= 1)
    /\ [][ArmedNow =>
            /\ Len(timers') = 1
            /\ timers'[1].delivered
            /\ \E k \in Jobs :
                  /\ timers'[1].after = k
                  /\ produced[k].kind = "none"
                  /\ produced'[k].kind # "none"
                  /\ ~IsSettled(handle[k])
                  /\ IsSettled(handle'[k])]_vars
    /\ [](nextId = 0 =>
            /\ queue = <<>>
            /\ ~isProcessing
            /\ timers = <<>>
            /\ running = {}
            /\ started = <<>>
            /\ \A k \in Jobs : handle[k] = NoHandle)

\* The timer that follows the second job is pending while a third job waits.
C18_Witness ==
    /\ Len(timers) = 1
    /\ Len(started) = 2
    /\ timers[1].after = started[2].job
    /\ queue # <<>>

\* C20 (submit frame effect): enqueueRequest called while the drain loop is
\* active appends exactly one record at the tail of the queue, creates that
\* call's pending promise and changes nothing else (no job starts, no timer is
\* armed or cancelled, isProcessing stays true, the records already pending
\* keep their order); called while idle it finds the queue empty and starts
\* the submitted job in the same step, setting isProcessing.
C20_SubmitFrame ==
    /\ [](isProcessing <=> (running # {} \/ timers # <<>>))
    /\ [][Submit =>
            LET k == nextId'
                rec == [requestFn |-> k, promise |-> k]
            IN  /\ k = nextId + 1
                /\ isProcessing'
                /\ \A j \in Jobs \ {k} : handle'[j] = handle[j]
                /\ IF isProcessing
                   THEN /\ queue' = Append(queue, rec)
                        /\ handle'[k] = PendingHandle
                        /\ started' = started
                        /\ running' = running
                        /\ timers' = timers
                        /\ produced' = produced
                        /\ settleCalls' = settleCalls
                   ELSE /\ queue = <<>>
                        /\ queue' = <<>>
                        /\ started' = Append(started, started'[Len(started')])
                        /\ started'[Len(started')].job = k
                        /\ started'[Len(started')].via = "enqueue"
                        /\ \/ running' = {rec} /\ handle'[k] = PendingHandle
                                 /\ timers' = timers
                           \/ running' = {} /\ handle'[k].st = "rejected"
                                 /\ Len(timers') = 1]_vars

\* Two jobs were submitted during the delay that follows the first job and
\* wait in the queue in submission order behind the pending timer.
C20_Witness ==
    /\ Len(timers) = 1
    /\ Len(queue) = 2
    /\ \A i \in 1..Len(queue) : submittedDuring[queue[i].requestFn] = "delay"
    /\ queue[1].requestFn < queue[2].requestFn

\* C22 (loop-flag invariant): in every state between two handler runs,
\* isProcessing is true exactly when a job is running or a delay timer is
\* pending; when it is false the queue is empty; so a pending job always has
\* a running job or a timer whose processQueue will reach it.
C22_LoopFlag ==
    /\ isProcessing <=> (running # {} \/ timers # <<>>)
    /\ ~isProcessing => queue = <<>>
    /\ queue # <<>> => (running # {} \/ timers # <<>>)
    /\ ~(running # {} /\ timers # <<>>)

\* The flag is true with only a timer pending and jobs waiting for it, after
\* the loop had gone idle and was restarted.
C22_Witness ==
    /\ isProcessing
    /\ running = {}
    /\ Len(timers) = 1
    /\ queue # <<>>
    /\ \E k \in 2..MaxJobs : submittedDuring[k] = "idle"

----------------------------------------------------------------------------
\* Properties of the HTTP requests

JobsOf(r) == {k \in Jobs : jobOwner[k] = r}
FailedJobsOf(r) == {k \in JobsOf(r) : handle[k].st = "rejected"}
KindsOf(S) == {jobKind[k] : k \in S}
\* Request r entered an assembler (it passed validation and the dispatch).
Assembled(r) == req[r].media # "none"

C12_ValidationSubmitsNothing ==
    /\ [](\A r \in Reqs : \A media \in MediaInputs : \A titles \in TitleInputs :
            (req[r].pc = "idle" /\ nextId < JobBudget) =>
                LET o == PostRecommend(QState, r, media, titles, AsyncMode)
                IN  IF titles \in {"missing", "empty"}
                    THEN o.s = QState /\ o.rq.status = 400 /\ o.rq.pc = "done"
                    ELSE o.rq.status # 400)
    /\ [][\A r \in Reqs : (req[r].status # 400 /\ req'[r].status = 400) =>
            /\ req[r].pc = "idle"
            /\ req'[r].pc = "done"
            /\ req'[r].sent = 1
            /\ UNCHANGED qvars]_vars
    /\ [](\A r \in Reqs : req[r].status = 400 => JobsOf(r) = {})

\* The second request was answered 400 while the first request's jobs were
\* running and pending in the queue.
C12_Witness ==
    /\ Cardinality(Reqs) >= 2
    /\ req[2].status = 400
    /\ req[1].pc \notin {"idle", "done"}
    /\ isProcessing
    /\ running # {}
    /\ queue # <<>>

\* What the assembler of request rq does when its title search has settled
\* with handle h and response body.
SearchContinuation(rq, r, h, body) ==
    IF rq.media = "manhwa"
    THEN ManhwaAfterSearch(QState, rq, r, h, body, AsyncMode)
    ELSE AfterSearch(QState, rq, r, h, body, AsyncMode)

\* C13 (not found): an assembler resumed by a settled title search answers 404
\* exactly when that search succeeded with an empty result and it was the
\* search for titles[1], or the search for titles[0] with no second title (it
\* searches titles[1] exactly when the search for titles[0] succeeded empty
\* and there is a second title); the step that sends the 404 submits no job,
\* and a request answered 404 has submitted only its searches, all succeeded.
C13_NotFound ==
    /\ [](\A r \in Reqs : \A k \in Jobs :
            (Resumable(r, k, {"search1", "search2"}, MediaInputs)
                 /\ nextId < JobBudget) =>
                \A body \in BodiesOf(req[r].pc) :
                    LET o == SearchContinuation(req[r], r, handle[k], body)
                        empty == handle[k].st = "resolved" /\ body = "empty"
                    IN  /\ (o.rq.status = 404) <=>
                               /\ empty
                               /\ req[r].pc = "search2" \/ req[r].nTitles = 1
                        /\ (o.rq.pc = "search2") <=>
                               /\ empty
                               /\ req[r].pc = "search1" /\ req[r].nTitles > 1)
    /\ [][\A r \in Reqs : (req[r].status # 404 /\ req'[r].status = 404) =>
            /\ req[r].pc \in {"search1", "search2"}
            /\ \A k \in req[r].waiting : handle[k].st = "resolved"
            /\ req'[r].pc = "done"
            /\ req'[r].sent = 1
            /\ UNCHANGED qvars]_vars
    /\ [](\A r \in Reqs : req[r].status = 404 =>
            /\ KindsOf(JobsOf(r)) \subseteq {"search1", "search2"}
            /\ Cardinality(JobsOf(r)) \in {1, 2}
            /\ FailedJobsOf(r) = {}
            /\ \A k \in JobsOf(r) : observed[k])

\* A request with two titles was answered 404 after both searches came back
\* empty, and the queue has since gone idle.
C13_Witness ==
    \E r \in Reqs :
        /\ req[r].status = 404
        /\ KindsOf(JobsOf(r)) = {"search1", "search2"}
        /\ ~isProcessing

Answered(r) == req[r].pc = "done"

Statuses == {400, 404, 500, 200}

C15_CappedResult ==
    \A r \in Reqs :
        /\ req[r].status = 200 => req[r].count \in 0..ResultCap
        /\ req[r].status # 200 => req[r].count = 0

\* A 200 response with a full list, from a manga or anime assembly that had
\* detail records and then added the genre tier on top of them.
C15_Witness ==
    \E r \in Reqs :
        /\ req[r].status = 200
        /\ req[r].count = ResultCap
        /\ {"detail", "genre"} \subseteq KindsOf(JobsOf(r))
        /\ "top" \notin KindsOf(JobsOf(r))

DetailJobsOf(r) == {k \in JobsOf(r) : jobKind[k] = "detail"}

PhaseOf(kind) ==
    CASE kind = "search1" -> 1
      [] kind = "search2" -> 2
      [] kind = "recs" -> 3
      [] kind = "detail" -> 4
      [] kind = "genre" -> 5
      [] kind = "top" -> 6
      [] OTHER -> 0

\* Job k is submitted in this step.
SubmittedNow(k) == jobKind[k] = "none" /\ jobKind'[k] # "none"

\* C21 (assembly phase ordering): in a manga or anime assembly, when a job is
\* submitted every job the request submitted in an earlier step belongs to an
\* earlier phase (search of titles[0], search of titles[1], recommendations,
\* detail fetches, genre fallback, top-ranked fallback) and has settled; the
\* detail fetches are submitted together, one per recommendation up to
\* DetailLimit; the genre job is submitted exactly when fewer than RecsWanted
\* records survived and the base title has a genre, and the top-ranked job
\* exactly when fewer than RecsWanted remain after the genre tier.
C21_PhaseOrder ==
    /\ [][\A k \in Jobs :
            (SubmittedNow(k) /\ req'[jobOwner'[k]].media \in TitleMedia) =>
                \A j \in JobsOf(jobOwner'[k]) :
                    /\ PhaseOf(jobKind[j]) < PhaseOf(jobKind'[k])
                    /\ IsSettled(handle[j])
                    /\ observed'[j]]_vars
    /\ [](\A r \in Reqs : \A k \in Jobs :
            (Resumable(r, k, {"recs"}, TitleMedia) /\ handle[k].st = "resolved"
                 /\ nextId + DetailLimit < JobBudget) =>
                \A body \in BodiesOf("recs") :
                    LET o == AfterRecs(QState, req[r], r, handle[k], body, AsyncMode)
                        n == Min(ListLen(body), DetailLimit)
                    IN  IF n > 0
                        THEN /\ o.rq.pc = "detail"
                             /\ o.rq.waiting = (nextId + 1)..(nextId + n)
                             /\ o.s.nextId = nextId + n
                        ELSE o.rq.pc = IF req[r].baseGenres THEN "genre" ELSE "top")
    /\ [](\A r \in Reqs : \A k \in Jobs :
            (Resumable(r, k, {"detail"}, TitleMedia) /\ req[r].waiting = {k}
                 /\ nextId < JobBudget) =>
                \A body \in BodiesOf("detail") :
                    LET o == AfterDetail(QState, req[r], r, k, handle[k], body,
                                         AsyncMode)
                        n == req[r].kept
                               + (IF handle[k].st = "resolved" /\ body = "keep"
                                  THEN 1 ELSE 0)
                    IN  /\ (o.rq.pc = "genre") <=> (n < RecsWanted /\ req[r].baseGenres)
                        /\ (o.rq.pc = "top") <=> (n < RecsWanted /\ ~req[r].baseGenres)
                        /\ (o.rq.pc = "done") <=> (n >= RecsWanted))
    /\ [](\A r \in Reqs : \A k \in Jobs :
            (Resumable(r, k, {"genre"}, TitleMedia) /\ handle[k].st = "resolved"
                 /\ nextId < JobBudget) =>
                \A body \in BodiesOf("genre") :
                    LET o == AfterGenre(QState, req[r], r, handle[k], body, AsyncMode)
                    IN  (o.rq.pc = "top") <=> (req[r].recs + ListLen(body) < RecsWanted))

\* An assembly went through all six phases, with all eight detail fetches,
\* and was answered 200.
C21_Witness ==
    \E r \in Reqs :
        /\ req[r].status = 200
        /\ req[r].media \in TitleMedia
        /\ KindsOf(JobsOf(r)) = {"search1", "search2", "recs", "detail", "genre", "top"}
        /\ Cardinality(DetailJobsOf(r)) = DetailLimit

QueuedJobs == {queue[i].requestFn : i \in 1..Len(queue)}

JobsOfKind(r, kind) == {k \in JobsOf(r) : jobKind[k] = kind}

\* C24 (bounded work per request): a manga or anime request submits at most
\* 13 jobs (one search per title for titles[0] and titles[1] only, one
\* recommendations fetch, DetailLimit detail fetches, one genre fallback, one
\* top-ranked fallback) and a manhwa request at most 4 (two searches, the
\* popular list, the top-ranked list), whatever the catalog returns.
C24_BoundedWork ==
    \A r \in Reqs :
        /\ Cardinality(JobsOfKind(r, "search1")) <= 1
        /\ Cardinality(JobsOfKind(r, "search2")) <= 1
        /\ Cardinality(JobsOfKind(r, "search2")) <= Cardinality(JobsOfKind(r, "search1"))
        /\ Cardinality(JobsOfKind(r, "top")) <= 1
        /\ req[r].media \in TitleMedia =>
              /\ KindsOf(JobsOf(r)) \subseteq
                     {"search1", "search2", "recs", "detail", "genre", "top"}
              /\ Cardinality(JobsOfKind(r, "recs")) <= 1
              /\ Cardinality(JobsOfKind(r, "detail")) <= DetailLimit
              /\ Cardinality(JobsOfKind(r, "genre")) <= 1
              /\ Cardinality(JobsOf(r)) <= 13
        /\ req[r].media = "manhwa" =>
              /\ KindsOf(JobsOf(r)) \subseteq {"search1", "search2", "popular", "top"}
              /\ Cardinality(JobsOfKind(r, "popular")) <= 1
              /\ Cardinality(JobsOf(r)) <= 4
        /\ req[r].media = "none" => JobsOf(r) = {}

\* A manga or anime request has submitted 13 jobs, against a catalog that
\* returned more than DetailLimit recommendations, with calls to spare.
C24_Witness ==
    \E r \in Reqs :
        /\ req[r].media \in TitleMedia
        /\ Cardinality(JobsOf(r)) = 13
        /\ catalog > DetailLimit
        /\ nextId < JobBudget

====
